---- MODULE Spec2Model ----
(***************************************************************************)
(* A model of the self-introduction scoring pipeline: text_utils.py (text  *)
(* normalisation, statistics, phrase detectors) and scoring.py (the eight  *)
(* rule-based sub-scorers, the semantic-similarity helper and              *)
(* score_transcript).                                                      *)
(*                                                                         *)
(* Python strings are TLA+ strings (sequences of characters); a character  *)
(* is a string of length 1.  Python floats are modelled by exact integer   *)
(* arithmetic (cross-multiplied comparisons); where binary floating point  *)
(* rounds differently from the rationals the model follows the float.      *)
(***************************************************************************)
EXTENDS Integers, Sequences, FiniteSets, TLC

VARIABLES
    pc,                    \* position of the caller / of score_transcript
    text,                  \* argument `text` of the running call
    duration_sec,          \* argument `duration_sec` of the running call
    local,                 \* locals of score_transcript computed so far
    semantic,              \* its locals content_sem .. engagement_sem, by criterion key
    result,                \* the dict returned by score_transcript
    encode_calls,          \* sem_model.encode calls on the transcript in this call
    CRITERION_EMBEDDINGS,  \* module-level cache: criterion key -> embedding
    desc_encodes,          \* sem_model.encode calls made per criterion description
    transcript_vec,        \* what sem_model.encode yields for this call's transcript
    probe                  \* a direct call of one scorer: [fn, args, ret]

vars == <<pc, text, duration_sec, local, semantic, result, encode_calls,
          CRITERION_EMBEDDINGS, desc_encodes, transcript_vec, probe>>

-----------------------------------------------------------------------------
(* Bounds of the model.                                                    *)

\* transcripts are built from at most MaxFrags fragments of Frags
MaxFrags == 2
\* durations passed to score_transcript range over -1..MaxDuration
MaxDuration == 2
\* direct calls of score_speech_rate / score_clarity: word counts 0..MaxWords
MaxWords == 150
\* direct calls of score_speech_rate: durations -1..MaxSeconds
MaxSeconds == 60
\* longest string passed to the text functions called on their own
MaxLen == 5
\* largest count passed to compute_ttr called on its own
MaxCount == 12

-----------------------------------------------------------------------------
(* Python float values that the code computes as quotients of integers are *)
(* kept as exact fractions n/d with d > 0.                                 *)

Q(n, d) == [n |-> n, d |-> d]

QLe(a, b) == a.n * b.d <= b.n * a.d
QLt(a, b) == a.n * b.d < b.n * a.d
QEq(a, b) == a.n * b.d = b.n * a.d

QMin(a, b) == IF QLe(a, b) THEN a ELSE b
QMax(a, b) == IF QLe(a, b) THEN b ELSE a

\* lo <= x <= hi, lo <= x < hi
QIn(lo, x, hi)   == QLe(lo, x) /\ QLe(x, hi)
QInLt(lo, x, hi) == QLe(lo, x) /\ QLt(x, hi)

-----------------------------------------------------------------------------
(* Python str primitives.                                                  *)

Ch(s, i) == SubSeq(s, i, i)

CharsOf(s) == {Ch(s, i) : i \in 1..Len(s)}

Whitespace == {" ", "\n", "\r", "\t"}

UpperChars == "ABCDEFGHIJKLMNOPQRSTUVWXYZ"
LowerChars == "abcdefghijklmnopqrstuvwxyz"
DigitChars == "0123456789"

LowerMap ==
    [c \in CharsOf(UpperChars) |->
        Ch(LowerChars, CHOOSE i \in 1..Len(UpperChars) : Ch(UpperChars, i) = c)]

isspace(c) == c \in Whitespace
isdigit(c) == c \in CharsOf(DigitChars)
isalpha(c) == c \in CharsOf(UpperChars) \cup CharsOf(LowerChars)

MinOf(S) == CHOOSE x \in S : \A y \in S : x <= y
MaxOf(S) == CHOOSE x \in S : \A y \in S : y <= x

LowerCh(c) == IF c \in DOMAIN LowerMap THEN LowerMap[c] ELSE c

\* s.lower(), character by character (halving keeps the recursion shallow)
RECURSIVE lower(_)
lower(s) ==
    IF Len(s) = 0 THEN ""
    ELSE IF Len(s) = 1 THEN LowerCh(s)
    ELSE LET h == Len(s) \div 2
         IN  lower(SubSeq(s, 1, h)) \o lower(SubSeq(s, h + 1, Len(s)))

\* length of the longest prefix of s with no character in stop
SpanNotIn(s, stop) ==
    LET hits == {i \in 1..Len(s) : Ch(s, i) \in stop}
    IN  IF hits = {} THEN Len(s) ELSE MinOf(hits) - 1

\* length of the longest prefix of s with every character in set
SpanIn(s, set) ==
    LET hits == {i \in 1..Len(s) : Ch(s, i) \notin set}
    IN  IF hits = {} THEN Len(s) ELSE MinOf(hits) - 1

lstrip(s) == SubSeq(s, SpanIn(s, Whitespace) + 1, Len(s))

rstrip(s) ==
    LET keep == {i \in 1..Len(s) : ~isspace(Ch(s, i))}
    IN  IF keep = {} THEN "" ELSE SubSeq(s, 1, MaxOf(keep))

strip(s) == rstrip(lstrip(s))

\* `p in s`
Contains(p, s) ==
    \E i \in 1..(Len(s) - Len(p) + 1) : SubSeq(s, i, i + Len(p) - 1) = p

\* any(p in s for p in phrases)
AnyIn(phrases, s) == \E k \in 1..Len(phrases) : Contains(phrases[k], s)

\* s.find(sub) + 1: the first position where sub occurs in s, 0 if none
Find(s, sub) ==
    LET occ == {i \in 1..(Len(s) - Len(sub) + 1) : SubSeq(s, i, i + Len(sub) - 1) = sub}
    IN  IF occ = {} THEN 0 ELSE MinOf(occ)

\* s.count(sub): non-overlapping occurrences, scanning left to right
RECURSIVE count(_, _)
count(s, sub) ==
    IF sub = "" THEN Len(s) + 1
    ELSE LET i == Find(s, sub)
         IN  IF i = 0 THEN 0
             ELSE 1 + count(SubSeq(s, i + Len(sub), Len(s)), sub)

\* s.split(): the maximal runs of non-whitespace characters
RECURSIVE split(_)
split(s) ==
    LET t == lstrip(s)
    IN  IF t = "" THEN <<>>
        ELSE LET n == SpanNotIn(t, Whitespace)
             IN  <<SubSeq(t, 1, n)>> \o split(SubSeq(t, n + 1, Len(t)))

\* s.replace("\r", " ").replace("\n", " ")
RECURSIVE replace_newlines(_)
replace_newlines(s) ==
    IF Len(s) = 0 THEN ""
    ELSE IF Len(s) = 1 THEN (IF s \in {"\r", "\n"} THEN " " ELSE s)
    ELSE LET h == Len(s) \div 2
         IN  replace_newlines(SubSeq(s, 1, h)) \o replace_newlines(SubSeq(s, h + 1, Len(s)))

\* re.sub(r"\s+", " ", s) on positions lo..hi of s: the first character of a
\* whitespace run becomes one space, the rest of the run is dropped
RECURSIVE sub_whitespace_range(_, _, _)
sub_whitespace_range(s, lo, hi) ==
    IF lo > hi THEN ""
    ELSE IF lo = hi
         THEN (IF ~isspace(Ch(s, lo)) THEN Ch(s, lo)
               ELSE IF lo > 1 /\ isspace(Ch(s, lo - 1)) THEN "" ELSE " ")
    ELSE LET h == (lo + hi) \div 2
         IN  sub_whitespace_range(s, lo, h) \o sub_whitespace_range(s, h + 1, hi)

sub_whitespace(s) == sub_whitespace_range(s, 1, Len(s))

SentenceEnd == {".", "!", "?"}

\* re.split(r"[.!?]+", s): the pieces between runs of sentence punctuation
RECURSIVE re_split(_)
re_split(s) ==
    LET n == SpanNotIn(s, SentenceEnd)
    IN  IF n = Len(s) THEN <<s>>
        ELSE LET rest == SubSeq(s, n + 1, Len(s))
                 m    == SpanIn(rest, SentenceEnd)
             IN  <<SubSeq(s, 1, n)>> \o re_split(SubSeq(rest, m + 1, Len(rest)))

SeqToSet(q) == {q[i] : i \in 1..Len(q)}

\* [f(x) for x in q if keep(x)] with f = strip, keep = non-empty after strip
RECURSIVE StripNonEmpty(_)
StripNonEmpty(q) ==
    IF q = <<>> THEN <<>>
    ELSE (IF strip(Head(q)) # "" THEN <<strip(Head(q))>> ELSE <<>>)
         \o StripNonEmpty(Tail(q))

-----------------------------------------------------------------------------
(* text_utils.py                                                           *)

\* variant: the final strip left out
preprocess_text_without_strip(t) ==
    IF t = "" THEN ""
    ELSE lower(sub_whitespace(replace_newlines(t)))

preprocess_text(t) ==
    IF t = "" THEN ""
    ELSE lower(strip(sub_whitespace(replace_newlines(t))))

get_basic_stats(t) ==
    LET clean == strip(t)
    IN  IF clean = ""
        THEN [tokens |-> <<>>, total_words |-> 0, distinct_words |-> 0,
              sentences |-> <<>>, sentence_count |-> 0]
        ELSE LET tokens    == split(clean)
                 sentences == StripNonEmpty(re_split(clean))
             IN  [tokens |-> tokens,
                  total_words |-> Len(tokens),
                  distinct_words |-> Cardinality(SeqToSet(tokens)),
                  sentences |-> sentences,
                  sentence_count |-> Len(sentences)]

\* variant: the zero-words guard left out (a zero denominator is the division
\* by zero)
compute_ttr_unguarded(total_words, distinct_words) ==
    Q(distinct_words, total_words)

compute_ttr(total_words, distinct_words) ==
    IF total_words = 0 THEN Q(0, 1) ELSE Q(distinct_words, total_words)

\* token_counts.get(f, 0): the number of tokens equal to f
token_count(tokens, f) == Cardinality({i \in 1..Len(tokens) : tokens[i] = f})

RECURSIVE count_fillers_loop(_, _, _)
count_fillers_loop(text_lower, tokens, fillers) ==
    IF fillers = <<>> THEN 0
    ELSE LET f == strip(lower(Head(fillers)))
         IN  (IF Contains(" ", f)
              THEN count(text_lower, f)
              ELSE token_count(tokens, f))
             + count_fillers_loop(text_lower, tokens, Tail(fillers))

\* variant: every filler counted as a substring, single words included
count_filler_words_substring(t, fillers) ==
    IF t = "" THEN 0
    ELSE LET text_lower == lower(t)
             loop[i \in 0..Len(fillers)] ==
                 IF i = 0 THEN 0
                 ELSE loop[i - 1] + count(text_lower, strip(lower(fillers[i])))
         IN  loop[Len(fillers)]

count_filler_words(t, fillers) ==
    IF t = "" THEN 0
    ELSE LET text_lower == lower(t)
         IN  count_fillers_loop(text_lower, split(text_lower), fillers)

enthusiastic_phrases ==
    << "excited to introduce myself",
       "thrilled to introduce myself",
       "thrilled to be here",
       "excited to be here",
       "i am excited to introduce",
       "i'm excited to introduce" >>

formal_greetings ==
    << "good morning", "good afternoon", "good evening",
       "hello everyone", "hello everybody" >>

simple_greetings == << "hello", "hi", "hey" >>

\* variant: the simple greetings tested before the formal ones
detect_salutation_level_simple_first(t) ==
    IF t = "" THEN 0
    ELSE LET sentences == get_basic_stats(t).sentences
         IN  IF sentences = <<>> THEN 0
             ELSE LET first == lower(sentences[1])
                  IN  IF AnyIn(enthusiastic_phrases, first) THEN 5
                      ELSE IF AnyIn(simple_greetings, first) THEN 2
                      ELSE IF AnyIn(formal_greetings, first) THEN 4
                      ELSE 0

detect_salutation_level(t) ==
    IF t = "" THEN 0
    ELSE LET sentences == get_basic_stats(t).sentences
         IN  IF sentences = <<>> THEN 0
             ELSE LET first == lower(sentences[1])
                  IN  IF AnyIn(enthusiastic_phrases, first) THEN 5
                      ELSE IF AnyIn(formal_greetings, first) THEN 4
                      ELSE IF AnyIn(simple_greetings, first) THEN 2
                      ELSE 0

name_phrases     == << "my name is", "myself", "i am " >>
age_phrases      == << "years old" >>
school_phrases   == << "class ", "standard", "grade ", "school" >>
family_phrases   == << "family", "mother", "father", "parents", "brother", "sister" >>
hobby_phrases    ==
    << "my hobby is", "my hobbies are", "i like to", "i love to", "i enjoy",
       "in my free time" >>
about_family_phrases ==
    << "my family is", "we are a family of", "there are", "members in my family" >>
location_phrases == << "i am from", "i'm from", "i live in", "my hometown" >>
ambition_phrases ==
    << "i want to become", "i want to be", "my dream is", "my goal is",
       "my ambition is" >>
fun_fact_phrases ==
    << "fun fact", "something unique about me", "one thing about me",
       "an interesting thing about me" >>
strength_phrases ==
    << "i am good at", "i'm good at", "my strength is", "my strengths are",
       "i have won", "i won", "i achieved", "i have achieved" >>

detect_keywords(txt) ==
    LET t == lower(txt)
    IN  [has_name |-> AnyIn(name_phrases, t),
         has_age |-> Contains("years old", t),
         has_school_class |-> AnyIn(school_phrases, t),
         has_family |-> AnyIn(family_phrases, t),
         has_hobbies |-> AnyIn(hobby_phrases, t),
         has_about_family |-> AnyIn(about_family_phrases, t),
         has_location |-> AnyIn(location_phrases, t),
         has_ambition |-> AnyIn(ambition_phrases, t),
         has_fun_fact |-> AnyIn(fun_fact_phrases, t),
         has_strengths_or_achievements |-> AnyIn(strength_phrases, t)]

sentence_has_basic(sent) ==
    LET s == lower(sent)
    IN  \/ AnyIn(<< "my name is", "myself", "i am " >>, s)
        \/ Contains("years old", s)
        \/ AnyIn(<< "class ", "standard", "grade ", "school" >>, s)
        \/ AnyIn(<< "i am from", "i live in", "i'm from", "my hometown" >>, s)

sentence_has_additional(sent) ==
    LET s == lower(sent)
    IN  \/ AnyIn(<< "family", "mother", "father", "parents", "brother", "sister" >>, s)
        \/ AnyIn(<< "my hobby is", "my hobbies are", "i like to", "i love to",
                    "i enjoy", "in my free time" >>, s)
        \/ AnyIn(<< "i want to become", "i want to be", "my dream is",
                    "my goal is", "my ambition is" >>, s)
        \/ AnyIn(<< "fun fact", "something unique about me", "one thing about me",
                    "an interesting thing about me" >>, s)
        \/ AnyIn(<< "i am good at", "i'm good at", "my strength is",
                    "my strengths are", "i have won", "i won", "i achieved",
                    "i have achieved" >>, s)

\* variant: the simple greetings left out of the salutation test
sentence_has_salutation_without_simple(sent) ==
    LET s == lower(sent)
    IN  \/ AnyIn(<< "good morning", "good afternoon", "good evening" >>, s)
        \/ AnyIn(<< "excited to introduce myself", "thrilled to introduce myself",
                    "excited to be here", "thrilled to be here" >>, s)

sentence_has_salutation(sent) ==
    LET s == lower(sent)
    IN  \/ AnyIn(<< "good morning", "good afternoon", "good evening" >>, s)
        \/ AnyIn(<< "hello", "hi", "hey" >>, s)
        \/ AnyIn(<< "excited to introduce myself", "thrilled to introduce myself",
                    "excited to be here", "thrilled to be here" >>, s)

sentence_has_closing(sent) ==
    LET s == lower(sent)
    IN  Contains("thank you", s) \/ Contains("thanks for listening", s)
        \/ Contains("that's all", s)

\* variant: the closing test placed before the salutation test
structure_tag_closing_first(s) ==
    IF sentence_has_closing(s) THEN "CLOSING"
    ELSE IF sentence_has_salutation(s) THEN "SALUTATION"
    ELSE IF sentence_has_basic(s) THEN "BASIC"
    ELSE IF sentence_has_additional(s) THEN "ADDITIONAL"
    ELSE "OTHER"

structure_tag(s) ==
    IF sentence_has_salutation(s) THEN "SALUTATION"
    ELSE IF sentence_has_closing(s) THEN "CLOSING"
    ELSE IF sentence_has_basic(s) THEN "BASIC"
    ELSE IF sentence_has_additional(s) THEN "ADDITIONAL"
    ELSE "OTHER"

RECURSIVE detect_structure_tags(_)
detect_structure_tags(sentences) ==
    IF sentences = <<>> THEN <<>>
    ELSE <<structure_tag(Head(sentences))>> \o detect_structure_tags(Tail(sentences))

-----------------------------------------------------------------------------
(* scoring.py: the rule-based scorers                                      *)

score_salutation(t) == detect_salutation_level(t)

must_haves ==
    << <<"Name", "has_name">>,
       <<"Age", "has_age">>,
       <<"School/Class", "has_school_class">>,
       <<"Family", "has_family">>,
       <<"Hobbies/Interests", "has_hobbies">> >>

good_to_have ==
    << <<"About family (details)", "has_about_family">>,
       <<"Location/Origin", "has_location">>,
       <<"Ambition/Goal/Dream", "has_ambition">>,
       <<"Fun fact / Unique thing", "has_fun_fact">>,
       <<"Strengths/Achievements", "has_strengths_or_achievements">> >>

\* one `for label, key in concepts` loop of score_keywords, started from acc
RECURSIVE keyword_loop(_, _, _, _)
keyword_loop(kw, concepts, points, acc) ==
    IF concepts = <<>> THEN acc
    ELSE LET label == Head(concepts)[1]
             key   == Head(concepts)[2]
         IN  keyword_loop(kw, Tail(concepts), points,
                IF kw[key]
                THEN <<acc[1] + points, Append(acc[2], label), acc[3]>>
                ELSE <<acc[1], acc[2], Append(acc[3], label)>>)

\* variant: good-to-have concepts weighted like must-haves
score_keywords_equal_weights(t) ==
    LET kw == detect_keywords(t)
    IN  keyword_loop(kw, good_to_have, 4,
            keyword_loop(kw, must_haves, 4, <<0, <<>>, <<>>>>))

score_keywords(t) ==
    LET kw == detect_keywords(t)
    IN  keyword_loop(kw, good_to_have, 2,
            keyword_loop(kw, must_haves, 4, <<0, <<>>, <<>>>>))

\* variant: a closing sentence is not required
score_flow_without_closing(sentences, tags) ==
    IF sentences = <<>> \/ tags = <<>> THEN 0
    ELSE IF "SALUTATION" \in SeqToSet(tags) /\ "BASIC" \in SeqToSet(tags)
         THEN 5 ELSE 0

score_flow(sentences, tags) ==
    IF sentences = <<>> \/ tags = <<>> THEN 0
    ELSE LET has_sal     == "SALUTATION" \in SeqToSet(tags)
             has_basic   == "BASIC" \in SeqToSet(tags)
             has_closing == "CLOSING" \in SeqToSet(tags)
         IN  IF has_sal /\ has_basic /\ has_closing THEN 5 ELSE 0

\* variant: the bands made contiguous, values between them joining the lower band
score_speech_rate_contiguous(total_words, duration) ==
    IF total_words = 0 \/ duration <= 0 THEN <<0, Q(0, 1)>>
    ELSE LET wpm == Q(total_words * 60, duration)
         IN  <<(IF QLt(wpm, Q(81, 1)) \/ QLt(Q(161, 1), wpm) THEN 2
                ELSE IF QInLt(Q(81, 1), wpm, Q(111, 1)) \/ QInLt(Q(141, 1), wpm, Q(161, 1))
                     THEN 6
                ELSE 10),
               wpm>>

score_speech_rate(total_words, duration) ==
    IF total_words = 0 \/ duration <= 0 THEN <<0, Q(0, 1)>>
    ELSE LET wpm == Q(total_words * 60, duration)
         IN  <<(IF QLt(wpm, Q(80, 1)) \/ QLt(Q(161, 1), wpm) THEN 2
                ELSE IF QIn(Q(81, 1), wpm, Q(110, 1)) \/ QIn(Q(141, 1), wpm, Q(160, 1))
                     THEN 6
                ELSE IF QIn(Q(111, 1), wpm, Q(140, 1)) THEN 10
                ELSE 2),
               wpm>>

RECURSIVE weird_tokens(_)
weird_tokens(tokens) ==
    IF tokens = <<>> THEN <<>>
    ELSE LET tok == Head(tokens)
         IN  (IF (\E i \in 1..Len(tok) : isdigit(Ch(tok, i)))
                 /\ (\E i \in 1..Len(tok) : isalpha(Ch(tok, i)))
              THEN <<tok>> ELSE <<>>)
             \o weird_tokens(Tail(tokens))

\* 1 - min(errors_per_100 / 20.0, 1.0)
gram_frac_of(errors_per_100) ==
    LET r == QMin(Q(errors_per_100.n, 20 * errors_per_100.d), Q(1, 1))
    IN  Q(r.d - r.n, r.d)

\* `0.2 <= gram_frac` as the float comparison decides it: gram_frac is exactly
\* 2/10 only as 1 - 0.8, which in binary floating point is 0.19999999999999996
FloatGe02(gram_frac) == QLt(Q(2, 10), gram_frac)

score_grammar(t, total_words) ==
    IF total_words = 0 THEN <<0, Q(0, 1)>>
    ELSE LET lower_text          == lower(t)
             lower_i_errors      == count(lower_text, " i ")
             double_space_errors == count(t, "  ")
             weird_punc_errors   == Len(weird_tokens(split(t)))
             errors_est == lower_i_errors + double_space_errors + weird_punc_errors
             errors_per_100 == QMin(Q(errors_est * 100, total_words), Q(100, 1))
             gram_frac == gram_frac_of(errors_per_100)
         IN  <<(IF QLt(Q(8, 10), gram_frac) THEN 10
                ELSE IF QIn(Q(6, 10), gram_frac, Q(8, 10)) THEN 8
                ELSE IF QInLt(Q(4, 10), gram_frac, Q(6, 10)) THEN 6
                ELSE IF FloatGe02(gram_frac) /\ QLt(gram_frac, Q(4, 10)) THEN 4
                ELSE 2),
               errors_per_100>>

score_vocabulary(total_words, distinct_words) ==
    IF total_words = 0 THEN <<0, Q(0, 1)>>
    ELSE LET ttr == compute_ttr(total_words, distinct_words)
         IN  <<(IF QIn(Q(9, 10), ttr, Q(1, 1)) THEN 10
                ELSE IF QInLt(Q(7, 10), ttr, Q(9, 10)) THEN 8
                ELSE IF QInLt(Q(5, 10), ttr, Q(7, 10)) THEN 6
                ELSE IF QInLt(Q(3, 10), ttr, Q(5, 10)) THEN 4
                ELSE 2),
               ttr>>

fillers ==
    << "um", "uh", "like", "you know", "so", "actually", "basically", "right",
       "i mean", "well", "kinda", "sort of", "okay", "hmm", "ah" >>

\* variant: the scores of the bands 4-6 and 7-9 exchanged
score_clarity_bands_exchanged(t, total_words) ==
    IF total_words = 0 THEN <<0, Q(0, 1), 0>>
    ELSE LET filler_count == count_filler_words(t, fillers)
             filler_rate  == Q(filler_count * 100, total_words)
         IN  <<(IF QIn(Q(0, 1), filler_rate, Q(3, 1)) THEN 15
                ELSE IF QIn(Q(4, 1), filler_rate, Q(6, 1)) THEN 9
                ELSE IF QIn(Q(7, 1), filler_rate, Q(9, 1)) THEN 12
                ELSE IF QIn(Q(10, 1), filler_rate, Q(12, 1)) THEN 6
                ELSE 3),
               filler_rate, filler_count>>

score_clarity(t, total_words) ==
    IF total_words = 0 THEN <<0, Q(0, 1), 0>>
    ELSE LET filler_count == count_filler_words(t, fillers)
             filler_rate  == Q(filler_count * 100, total_words)
         IN  <<(IF QIn(Q(0, 1), filler_rate, Q(3, 1)) THEN 15
                ELSE IF QIn(Q(4, 1), filler_rate, Q(6, 1)) THEN 12
                ELSE IF QIn(Q(7, 1), filler_rate, Q(9, 1)) THEN 9
                ELSE IF QIn(Q(10, 1), filler_rate, Q(12, 1)) THEN 6
                ELSE 3),
               filler_rate, filler_count>>

\* analyzer.polarity_scores(text)["pos"]: the share of positive sentiment VADER
\* finds, rounded to three decimals, kept in thousandths.  VADER reports 0.0
\* for a text without tokens; for any other text the value is the library's.
polarity_pos(t, vader) == IF split(t) = <<>> THEN Q(0, 1000) ELSE Q(vader, 1000)

score_engagement(pos) ==
    <<(IF QLe(Q(7, 10), pos) THEN 15
       ELSE IF QInLt(Q(5, 10), pos, Q(7, 10)) THEN 12
       ELSE IF QInLt(Q(3, 10), pos, Q(5, 10)) THEN 9
       ELSE IF QInLt(Q(1, 10), pos, Q(3, 10)) THEN 6
       ELSE 3),
      pos>>

-----------------------------------------------------------------------------
(* scoring.py: the semantic-similarity helper                              *)

CRITERION_KEYS == << "content", "language", "clarity", "engagement" >>

\* the vector sem_model.encode gives a criterion description
DescriptionEmbedding(key) == << "description", key >>

\* The vectors sem_model.encode may give a transcript.  The sentence
\* embedding model is an external, deterministic function of the text; a
\* vector is known here only by its cosine with the four criterion vectors.
TranscriptEmbeddings == { "v1", "v2", "v3" }

\* util.pytorch_cos_sim(text_emb, crit_emb).item(): a float that rounding can
\* push slightly outside [-1, 1]
pytorch_cos_sim(text_emb, crit_emb) ==
    LET key == crit_emb[2]
        row == CASE text_emb = "v1" -> << Q(1, 2), Q(-1, 4), Q(10000001, 10000000), Q(-1, 1) >>
                 [] text_emb = "v2" -> << Q(10000001, 10000000), Q(7, 10), Q(-1, 10000000), Q(10000001, 10000000) >>
                 [] text_emb = "v3" -> << Q(-1, 4), Q(10000001, 10000000), Q(3, 10), Q(9, 10) >>
    IN  row[CHOOSE i \in 1..Len(CRITERION_KEYS) : CRITERION_KEYS[i] = key]

\* max(0.0, min(1.0, sim))
\* variant: only the lower limit applied
clamp_sim_lower_only(sim) == QMax(Q(0, 1), sim)

clamp_sim(sim) == QMax(Q(0, 1), QMin(Q(1, 1), sim))

\* compute_semantic_similarity(text, criterion_key), where text_emb is what
\* sem_model.encode(text) yields and cache is CRITERION_EMBEDDINGS
compute_semantic_similarity(text_emb, cache, criterion_key) ==
    IF criterion_key \notin DOMAIN cache THEN Q(0, 1)
    ELSE clamp_sim(pytorch_cos_sim(text_emb, cache[criterion_key]))

\* the number of sem_model.encode calls one compute_semantic_similarity makes
encodes_of(cache, criterion_key) ==
    IF criterion_key \notin DOMAIN cache THEN 0 ELSE 1

\* variant: the criterion description embedded again on every request
description_encodes_of_reembedding(cache, criterion_key) ==
    IF criterion_key \notin DOMAIN cache THEN 0 ELSE 1

\* the number of sem_model.encode calls on a criterion description that one
\* compute_semantic_similarity makes: the cached vector is read (line 347)
description_encodes_of(cache, criterion_key) == 0

\* CRITERION_EMBEDDINGS after one compute_semantic_similarity: the function
\* assigns to no module-level name
cache_after(cache, criterion_key) == cache

\* the description-embedding counts after one compute_semantic_similarity
desc_encodes_after(counts, cache, criterion_key) ==
    [k \in DOMAIN counts |->
        counts[k] + (IF k = criterion_key
                     THEN description_encodes_of(cache, criterion_key) ELSE 0)]

-----------------------------------------------------------------------------
(* Inputs.                                                                 *)

Frags ==
    << "Good morning! ",
       "Hi everyone, ",
       "I am thrilled to introduce myself. ",
       "My name is Arjun, 14 years old, class 9. ",
       "My parents are kind and I enjoy reading. ",
       "Thank you for listening.",
       "Okay. um so you know, i  a1 \n",
       "this is it, I want to be a pilot. " >>

\* the sample transcripts of scoring.py (__main__) and app.py, a transcript
\* with the five must-have phrases, and one whose sentences are out of order
Examples ==
    { "Hello everyone, my name is Arjun. I am 14 years old and I study in "
      \o "Class 9 at Sunrise Public School. I live in Bangalore with my parents "
      \o "and my younger sister. In my free time, I enjoy playing football and "
      \o "reading stories. Thank you for listening.",
      "Hello everyone, my name is Muskan. I am 13 years old and I study in "
      \o "class 8B at Christ Public School. We are a family of three and they are "
      \o "very kind and soft spoken. In my free time, I love playing cricket and "
      \o "sometimes talk to myself in the mirror. Thank you for listening.",
      "my name is X, 14 years old, class 9, my parents, I enjoy reading",
      "Thank you for listening. My name is Arjun. Good morning!",
      "I am excited to introduce my family. Thank you." }

RECURSIVE FragTexts(_)
FragTexts(n) ==
    IF n = 0 THEN {""}
    ELSE LET prev == FragTexts(n - 1)
         IN  prev \cup {t \o Frags[i] : t \in prev, i \in 1..Len(Frags)}

Transcripts == FragTexts(MaxFrags) \cup Examples

Durations == -1..MaxDuration

\* values of VADER's "pos" (thousandths), one in every band of score_engagement
PosValues == {0, 100, 300, 500, 700}

\* criterion keys passed to compute_semantic_similarity directly
ProbeKeys == SeqToSet(CRITERION_KEYS) \cup {"fluency"}

\* transcripts passed to score_clarity directly, with any word count
ClarityTexts ==
    { "", "um", "hello there", "um uh like so well", "you know you know",
      "also sort of um, so", "i mean, you know, like um um",
      "um um um um um um um", "Um UH okay hmm ah right actually basically kinda",
      "so so so so so so so so so so so so so" }

-----------------------------------------------------------------------------
(* The state machine: callers invoke score_transcript, which runs to       *)
(* completion; one action per stretch of its body.                         *)

Idle == "idle"

Init ==
    /\ pc = Idle
    /\ text = ""
    /\ duration_sec = 0
    /\ local = <<>>
    /\ semantic = <<>>
    /\ result = <<>>
    /\ encode_calls = 0
    /\ transcript_vec = "unset"
    /\ CRITERION_EMBEDDINGS =
          [k \in SeqToSet(CRITERION_KEYS) |-> DescriptionEmbedding(k)]
    /\ desc_encodes = [k \in SeqToSet(CRITERION_KEYS) |-> 1]
    /\ probe = <<>>

\* a caller invokes score_transcript(t, d)
Call(t, d) ==
    /\ pc = Idle
    /\ pc' = "called"
    /\ text' = t
    /\ duration_sec' = d
    /\ encode_calls' = 0
    /\ UNCHANGED <<local, semantic, result, transcript_vec, CRITERION_EMBEDDINGS,
                   desc_encodes, probe>>

\* score_transcript, lines 373-395: everything up to the clarity score
rule_scores(t, d) ==
    LET clean_text == preprocess_text(t)
        stats      == get_basic_stats(clean_text)
        kw         == score_keywords(clean_text)
        tags       == detect_structure_tags(stats.sentences)
        speech     == score_speech_rate(stats.total_words, d)
        grammar    == score_grammar(t, stats.total_words)
        vocab      == score_vocabulary(stats.total_words, stats.distinct_words)
        clarity    == score_clarity(clean_text, stats.total_words)
    IN  [clean_text |-> clean_text,
         tokens |-> stats.tokens,
         total_words |-> stats.total_words,
         distinct_words |-> stats.distinct_words,
         sentences |-> stats.sentences,
         sentence_count |-> stats.sentence_count,
         salutation_score |-> score_salutation(clean_text),
         keyword_score |-> kw[1],
         present_kw |-> kw[2],
         missing_kw |-> kw[3],
         tags |-> tags,
         flow_score |-> score_flow(stats.sentences, tags),
         speech_score |-> speech[1],
         wpm |-> speech[2],
         grammar_score |-> grammar[1],
         errors_per_100 |-> grammar[2],
         vocab_score |-> vocab[1],
         ttr |-> vocab[2],
         clarity_score |-> clarity[1],
         filler_rate |-> clarity[2],
         filler_count |-> clarity[3]]

RuleScores ==
    /\ pc = "called"
    /\ pc' = "rules_done"
    /\ local' = rule_scores(text, duration_sec)
    /\ UNCHANGED <<text, duration_sec, semantic, result, encode_calls, transcript_vec,
                   CRITERION_EMBEDDINGS, desc_encodes, probe>>

\* variant: the flow score left out of the sum
total_of_without_flow(l, engagement_score) ==
    l.salutation_score + l.keyword_score + l.speech_score
    + l.grammar_score + l.vocab_score + l.clarity_score + engagement_score

\* total_score = salutation_score + ... + engagement_score (lines 398-407)
total_of(l, engagement_score) ==
    l.salutation_score + l.keyword_score + l.flow_score + l.speech_score
    + l.grammar_score + l.vocab_score + l.clarity_score + engagement_score

\* score_transcript, lines 396-407: the engagement score and the total
EngagementAndTotal ==
    /\ pc = "rules_done"
    /\ \E vader \in PosValues :
          LET eng == score_engagement(polarity_pos(text, vader))
          IN  local' = [k \in DOMAIN local \cup {"engagement_score", "pos_prob", "total_score"} |->
                          CASE k = "engagement_score" -> eng[1]
                            [] k = "pos_prob" -> eng[2]
                            [] k = "total_score" -> total_of(local, eng[1])
                            [] OTHER -> local[k]]
    /\ pc' = "semantic"
    /\ UNCHANGED <<text, duration_sec, semantic, result, encode_calls, transcript_vec,
                   CRITERION_EMBEDDINGS, desc_encodes, probe>>

\* the criterion compared next: lines 410-413 call compute_semantic_similarity
\* for "content", "language", "clarity", "engagement" in this order
NextCriterion ==
    LET todo == {i \in 1..Len(CRITERION_KEYS) : CRITERION_KEYS[i] \notin DOMAIN semantic}
    IN  IF todo = {} THEN "none" ELSE CRITERION_KEYS[MinOf(todo)]

\* one call compute_semantic_similarity(clean_text, key) of lines 410-413
SemanticSimilarity ==
    /\ pc = "semantic"
    /\ NextCriterion # "none"
    /\ LET key == NextCriterion
       IN  /\ \E v \in TranscriptEmbeddings :
                 /\ transcript_vec \in {"unset", v}
                 /\ transcript_vec' = v
                 /\ semantic' = [k \in DOMAIN semantic \cup {key} |->
                                   IF k = key
                                   THEN compute_semantic_similarity(v, CRITERION_EMBEDDINGS, key)
                                   ELSE semantic[k]]
           /\ encode_calls' = encode_calls + encodes_of(CRITERION_EMBEDDINGS, key)
           /\ CRITERION_EMBEDDINGS' = cache_after(CRITERION_EMBEDDINGS, key)
           /\ desc_encodes' = desc_encodes_after(desc_encodes, CRITERION_EMBEDDINGS, key)
    /\ UNCHANGED <<pc, text, duration_sec, local, result, probe>>

\* score_transcript, lines 415-446: the result dict is built and returned
Return ==
    /\ pc = "semantic"
    /\ NextCriterion = "none"
    /\ pc' = "done"
    /\ result' =
          [total_score |-> local.total_score,
           stats |-> [total_words |-> local.total_words,
                      distinct_words |-> local.distinct_words,
                      sentence_count |-> local.sentence_count,
                      tokens |-> local.tokens],
           wpm |-> local.wpm,
           salutation_score |-> local.salutation_score,
           keyword_score |-> local.keyword_score,
           present_keywords |-> local.present_kw,
           missing_keywords |-> local.missing_kw,
           flow_score |-> local.flow_score,
           speech_score |-> local.speech_score,
           grammar_score |-> local.grammar_score,
           errors_per_100 |-> local.errors_per_100,
           vocab_score |-> local.vocab_score,
           ttr |-> local.ttr,
           clarity_score |-> local.clarity_score,
           filler_rate |-> local.filler_rate,
           filler_count |-> local.filler_count,
           engagement_score |-> local.engagement_score,
           pos_prob |-> local.pos_prob,
           tags |-> local.tags,
           content_semantic |-> semantic["content"],
           language_semantic |-> semantic["language"],
           clarity_semantic |-> semantic["clarity"],
           engagement_semantic |-> semantic["engagement"]]
    /\ UNCHANGED <<text, duration_sec, local, semantic, encode_calls, transcript_vec,
                   CRITERION_EMBEDDINGS, desc_encodes, probe>>

\* the caller has taken the result; the call's frame is gone
Finish ==
    /\ pc = "done"
    /\ pc' = Idle
    /\ text' = ""
    /\ duration_sec' = 0
    /\ local' = <<>>
    /\ semantic' = <<>>
    /\ result' = <<>>
    /\ encode_calls' = 0
    /\ transcript_vec' = "unset"
    /\ UNCHANGED <<CRITERION_EMBEDDINGS, desc_encodes, probe>>

\* the caller of a scorer has taken its return value
ProbeReturn ==
    /\ pc = "returned"
    /\ pc' = Idle
    /\ probe' = <<>>
    /\ encode_calls' = 0
    /\ UNCHANGED <<text, duration_sec, local, semantic, result, transcript_vec,
                   CRITERION_EMBEDDINGS, desc_encodes>>

\* a caller invokes compute_semantic_similarity(text, key) directly; v is what
\* the embedding model yields for the text
CallSimilarity(key, v) ==
    /\ pc = Idle
    /\ pc' = "returned"
    /\ probe' = [fn |-> "compute_semantic_similarity",
                 args |-> <<v, key>>,
                 ret |-> compute_semantic_similarity(v, CRITERION_EMBEDDINGS, key)]
    /\ encode_calls' = encodes_of(CRITERION_EMBEDDINGS, key)
    /\ CRITERION_EMBEDDINGS' = cache_after(CRITERION_EMBEDDINGS, key)
    /\ desc_encodes' = desc_encodes_after(desc_encodes, CRITERION_EMBEDDINGS, key)
    /\ UNCHANGED <<text, duration_sec, local, semantic, result, transcript_vec>>

Next ==
    \/ pc = Idle /\ \E t \in Transcripts, d \in Durations : Call(t, d)
    \/ RuleScores
    \/ EngagementAndTotal
    \/ SemanticSimilarity
    \/ Return
    \/ Finish
    \/ pc = Idle /\ \E key \in ProbeKeys, v \in TranscriptEmbeddings : CallSimilarity(key, v)
    \/ ProbeReturn

Spec == Init /\ [][Next]_vars

-----------------------------------------------------------------------------
(* The numeric scorers called on their own, over ranges of word counts and *)
(* durations that transcripts of a few sentences do not reach.             *)

CallSpeechRate(total_words, duration) ==
    /\ pc = Idle
    /\ pc' = "returned"
    /\ probe' = [fn |-> "score_speech_rate",
                 args |-> <<total_words, duration>>,
                 ret |-> score_speech_rate(total_words, duration)]
    /\ UNCHANGED <<text, duration_sec, local, semantic, result, encode_calls, transcript_vec,
                   CRITERION_EMBEDDINGS, desc_encodes>>

CallClarity(t, total_words) ==
    /\ pc = Idle
    /\ pc' = "returned"
    /\ probe' = [fn |-> "score_clarity",
                 args |-> <<t, total_words>>,
                 ret |-> score_clarity(t, total_words)]
    /\ UNCHANGED <<text, duration_sec, local, semantic, result, encode_calls, transcript_vec,
                   CRITERION_EMBEDDINGS, desc_encodes>>

NextScorers ==
    \/ pc = Idle /\ \E w \in 0..MaxWords, d \in -1..MaxSeconds : CallSpeechRate(w, d)
    \/ pc = Idle /\ \E t \in ClarityTexts, w \in 0..MaxWords : CallClarity(t, w)
    \/ ProbeReturn

SpecScorers == Init /\ [][NextScorers]_vars

-----------------------------------------------------------------------------
(* The text functions called on their own, over every short string of an   *)
(* alphabet with both letter cases, the four whitespace characters and a   *)
(* sentence end.                                                           *)

TextChars == {"a", "B", " ", "\n", "\r", "\t", "."}

RECURSIVE StringsUpTo(_)
StringsUpTo(n) ==
    IF n = 0 THEN {""}
    ELSE LET shorter == StringsUpTo(n - 1)
         IN  shorter \cup {str \o c : str \in shorter, c \in TextChars}

Strings == StringsUpTo(MaxLen)

CallPreprocess(str) ==
    /\ pc = Idle
    /\ pc' = "returned"
    /\ probe' = [fn |-> "preprocess_text",
                 args |-> <<str>>,
                 ret |-> preprocess_text(str)]
    /\ UNCHANGED <<text, duration_sec, local, semantic, result, encode_calls, transcript_vec,
                   CRITERION_EMBEDDINGS, desc_encodes>>

\* get_basic_stats(str) and compute_ttr on its counts, as score_vocabulary calls it
CallStats(str) ==
    /\ pc = Idle
    /\ pc' = "returned"
    /\ LET stats == get_basic_stats(str)
       IN  probe' = [fn |-> "get_basic_stats",
                     args |-> <<str>>,
                     ret |-> <<stats, compute_ttr(stats.total_words, stats.distinct_words)>>]
    /\ UNCHANGED <<text, duration_sec, local, semantic, result, encode_calls, transcript_vec,
                   CRITERION_EMBEDDINGS, desc_encodes>>

CallTtr(total_words, distinct_words) ==
    /\ pc = Idle
    /\ pc' = "returned"
    /\ probe' = [fn |-> "compute_ttr",
                 args |-> <<total_words, distinct_words>>,
                 ret |-> compute_ttr(total_words, distinct_words)]
    /\ UNCHANGED <<text, duration_sec, local, semantic, result, encode_calls, transcript_vec,
                   CRITERION_EMBEDDINGS, desc_encodes>>

NextText ==
    \/ pc = Idle /\ \E str \in Strings : CallPreprocess(str)
    \/ pc = Idle /\ \E str \in Strings : CallStats(str)
    \/ pc = Idle /\ \E w \in 0..MaxCount, d \in 0..MaxCount : CallTtr(w, d)
    \/ ProbeReturn

SpecText == Init /\ [][NextText]_vars

-----------------------------------------------------------------------------
(* Properties of score_transcript, checked under Spec.                     *)

SubScoreMax ==
    [salutation_score |-> 5, keyword_score |-> 30, flow_score |-> 5,
     speech_score |-> 10, grammar_score |-> 10, vocab_score |-> 10,
     clarity_score |-> 15, engagement_score |-> 15]

Returned == pc = "done"

\* C1: the total_score of every result is an integer in [0,100] and is the sum
\* of the eight sub-scores of the same result, each of which lies between 0
\* and its maximum (5, 30, 5, 10, 10, 10, 15, 15).
C1_TotalIsSumOfBoundedSubScores ==
    Returned =>
        /\ \A f \in DOMAIN SubScoreMax : result[f] \in 0..SubScoreMax[f]
        /\ result.total_score \in 0..100
        /\ result.total_score =
              result.salutation_score + result.keyword_score + result.flow_score
              + result.speech_score + result.grammar_score + result.vocab_score
              + result.clarity_score + result.engagement_score

\* a result in which every sub-score is positive and some reach their maximum
C1_Witness ==
    /\ Returned
    /\ \A f \in DOMAIN SubScoreMax : result[f] > 0
    /\ result.flow_score = 5 /\ result.engagement_score = 15
    /\ result.total_score >= 70

\* C2: on degenerate input every sub-scorer returns 0: all eight sub-scores
\* and the total are 0 for a transcript without words, and the speech-rate
\* score is 0 for a zero or negative duration.
C2_DegenerateInputScoresZero ==
    Returned =>
        /\ result.stats.total_words = 0 =>
              /\ \A f \in DOMAIN SubScoreMax : result[f] = 0
              /\ result.total_score = 0
        /\ duration_sec <= 0 => result.speech_score = 0

\* what the code does on a transcript without words: seven sub-scores are 0,
\* the engagement score is 3
C2_EngagementOfEmptyIsThree ==
    (Returned /\ result.stats.total_words = 0) =>
        /\ \A f \in DOMAIN SubScoreMax \ {"engagement_score"} : result[f] = 0
        /\ result.engagement_score = 3
        /\ result.total_score = 3

\* p occurs in s: at some offset every character of p is matched
Occurs(p, s) ==
    \E off \in 0..(Len(s) - Len(p)) : \A k \in 1..Len(p) : Ch(s, off + k) = Ch(p, k)

\* the rule-based scorers of this call have returned (lines 373-395)
Scored == pc = "rules_done"

OccursAny(P, s) == \E p \in P : Occurs(p, s)

StartsWith(s, p) == Len(s) >= Len(p) /\ SubSeq(s, 1, Len(p)) = p

EnthusiasticTier ==
    { "excited to introduce myself", "thrilled to introduce myself",
      "thrilled to be here", "excited to be here", "i am excited to introduce",
      "i'm excited to introduce" }
FormalTier ==
    { "good morning", "good afternoon", "good evening", "hello everyone",
      "hello everybody" }
SimpleTier == { "hello", "hi", "hey" }

\* the tier of a first sentence: the first of the three that it matches
TierOf(first) ==
    IF OccursAny(EnthusiasticTier, first) THEN 5
    ELSE IF OccursAny(FormalTier, first) THEN 4
    ELSE IF OccursAny(SimpleTier, first) THEN 2
    ELSE 0

MustHaveKeys ==
    { "has_name", "has_age", "has_school_class", "has_family", "has_hobbies" }
GoodToHaveKeys ==
    { "has_about_family", "has_location", "has_ambition", "has_fun_fact",
      "has_strengths_or_achievements" }
ConceptLabels ==
    { "Name", "Age", "School/Class", "Family", "Hobbies/Interests",
      "About family (details)", "Location/Origin", "Ambition/Goal/Dream",
      "Fun fact / Unique thing", "Strengths/Achievements" }

Occurrences(q, x) == Cardinality({i \in 1..Len(q) : q[i] = x})

HasFiveMustHavePhrases(t) ==
    \A p \in {"my name is", "14 years old", "class 9", "my parents", "i enjoy reading"} :
        Occurs(p, t)

\* C4: the keyword score is 4 points per detected must-have concept plus 2 per
\* detected good-to-have concept, at most 30; a transcript with "my name is",
\* "14 years old", "class 9", "my parents" and "I enjoy reading" scores 20 plus
\* 2 per good-to-have concept; every one of the ten labels is in exactly one
\* of present_keywords and missing_keywords.
C4_KeywordScoreCountsConcepts ==
    /\ Scored =>
          LET kw   == detect_keywords(local.clean_text)
              must == Cardinality({k \in MustHaveKeys : kw[k]})
              good == Cardinality({k \in GoodToHaveKeys : kw[k]})
          IN  /\ local.keyword_score = 4 * must + 2 * good
              /\ local.keyword_score <= 30
              /\ HasFiveMustHavePhrases(local.clean_text) =>
                    /\ must = 5
                    /\ local.keyword_score = 20 + 2 * good
                    /\ {"Name", "Age", "School/Class", "Family", "Hobbies/Interests"}
                          \subseteq SeqToSet(local.present_kw)
              /\ \A label \in ConceptLabels :
                    Occurrences(local.present_kw, label)
                    + Occurrences(local.missing_kw, label) = 1
              /\ Len(local.present_kw) + Len(local.missing_kw) = 10
              /\ Len(local.present_kw) = must + good
    /\ Returned =>
          /\ result.keyword_score = local.keyword_score
          /\ result.present_keywords = local.present_kw
          /\ result.missing_keywords = local.missing_kw

\* the transcript with exactly the five must-have phrases scores 20, and one
\* with good-to-have concepts as well scores more
C4_Witness ==
    /\ Returned
    /\ HasFiveMustHavePhrases(local.clean_text)
    /\ \/ text = "my name is X, 14 years old, class 9, my parents, I enjoy reading"
          /\ result.keyword_score = 20
          /\ Len(result.missing_keywords) = 5
       \/ result.keyword_score > 20

\* C5: the flow score is 5 exactly when the tags of the sentences hold at least
\* one SALUTATION, one BASIC and one CLOSING, whatever their order and
\* whatever ADDITIONAL or OTHER tags there are; otherwise it is 0.
C5_FlowIffAllThreeTags ==
    /\ Scored =>
          /\ local.flow_score \in {0, 5}
          /\ local.flow_score = 5 <=>
                {"SALUTATION", "BASIC", "CLOSING"} \subseteq SeqToSet(local.tags)
    /\ Returned => result.flow_score = local.flow_score /\ result.tags = local.tags

\* the three tags in the order CLOSING, BASIC, SALUTATION give 5
C5_Witness ==
    /\ Returned
    /\ result.flow_score = 5
    /\ result.tags = <<"CLOSING", "BASIC", "SALUTATION">>

\* the category tests of a sentence, in priority order
Categories == << "SALUTATION", "CLOSING", "BASIC", "ADDITIONAL" >>

Matches(category, s) ==
    CASE category = "SALUTATION" -> sentence_has_salutation(s)
      [] category = "CLOSING" -> sentence_has_closing(s)
      [] category = "BASIC" -> sentence_has_basic(s)
      [] category = "ADDITIONAL" -> sentence_has_additional(s)

\* the number of the first category s matches, 5 (OTHER) if it matches none
FirstMatch(s) ==
    LET hit == {i \in 1..Len(Categories) : Matches(Categories[i], s)}
    IN  IF hit = {} THEN 5 ELSE MinOf(hit)

\* C8: detect_structure_tags gives one tag per sentence, in sentence order,
\* and each tag is the first category the sentence matches in the order
\* SALUTATION > CLOSING > BASIC > ADDITIONAL, or OTHER if it matches none.
C8_OneTagPerSentenceByPriority ==
    /\ Scored =>
          /\ Len(local.tags) = Len(local.sentences)
          /\ Len(local.tags) = local.sentence_count
          /\ \A i \in 1..Len(local.sentences) :
                local.tags[i] = (Categories \o <<"OTHER">>)[FirstMatch(local.sentences[i])]
    /\ Returned => result.tags = local.tags

\* sentences that match several categories get the one of highest priority
C8_Witness ==
    /\ Returned
    /\ \E i \in 1..Len(local.sentences) :
          /\ sentence_has_salutation(local.sentences[i])
          /\ sentence_has_basic(local.sentences[i])
          /\ result.tags[i] = "SALUTATION"
    /\ \E i \in 1..Len(local.sentences) :
          /\ ~sentence_has_salutation(local.sentences[i])
          /\ sentence_has_basic(local.sentences[i])
          /\ sentence_has_additional(local.sentences[i])
          /\ result.tags[i] = "BASIC"

\* C9: in every scoring call the transcript is embedded exactly once.
C9_TranscriptEmbeddedOnce == Returned => encode_calls = 1

\* the code makes one sem_model.encode call on the transcript per criterion
C9_TranscriptEmbeddedPerCriterion == Returned => encode_calls = 4

InUnitInterval(x) == QLe(Q(0, 1), x) /\ QLe(x, Q(1, 1))

SimilarityReturned ==
    pc = "returned" /\ probe.fn = "compute_semantic_similarity"

\* C10: every value compute_semantic_similarity returns, and so every semantic
\* value of a result, lies in [0,1]: a raw cosine above 1 gives 1.0, one below
\* 0 gives 0.0, and an unknown criterion key gives 0.0.
C10_SimilarityClampedToUnitInterval ==
    /\ SimilarityReturned =>
          LET v   == probe.args[1]
              key == probe.args[2]
          IN  /\ InUnitInterval(probe.ret)
              /\ key \notin SeqToSet(CRITERION_KEYS) => QEq(probe.ret, Q(0, 1))
              /\ key \in SeqToSet(CRITERION_KEYS) =>
                    LET raw == pytorch_cos_sim(v, DescriptionEmbedding(key))
                    IN  /\ QLt(Q(1, 1), raw) => QEq(probe.ret, Q(1, 1))
                        /\ QLt(raw, Q(0, 1)) => QEq(probe.ret, Q(0, 1))
                        /\ InUnitInterval(raw) => QEq(probe.ret, raw)
    /\ \A k \in DOMAIN semantic :
          /\ InUnitInterval(semantic[k])
          /\ LET raw == pytorch_cos_sim(transcript_vec, DescriptionEmbedding(k))
             IN  /\ QLt(Q(1, 1), raw) => QEq(semantic[k], Q(1, 1))
                 /\ QLt(raw, Q(0, 1)) => QEq(semantic[k], Q(0, 1))
    /\ Returned =>
          /\ InUnitInterval(result.content_semantic)
          /\ InUnitInterval(result.language_semantic)
          /\ InUnitInterval(result.clarity_semantic)
          /\ InUnitInterval(result.engagement_semantic)
          /\ result.content_semantic = semantic["content"]
          /\ result.language_semantic = semantic["language"]
          /\ result.clarity_semantic = semantic["clarity"]
          /\ result.engagement_semantic = semantic["engagement"]

\* a result whose raw content cosine is above 1 and raw clarity cosine below 0
C10_Witness ==
    /\ Returned
    /\ QLt(Q(1, 1), pytorch_cos_sim(transcript_vec, DescriptionEmbedding("content")))
    /\ QLt(pytorch_cos_sim(transcript_vec, DescriptionEmbedding("clarity")), Q(0, 1))
    /\ QEq(result.content_semantic, Q(1, 1))
    /\ QEq(result.clarity_semantic, Q(0, 1))
    /\ QLt(Q(0, 1), result.language_semantic)
    /\ QLt(result.language_semantic, Q(1, 1))

-----------------------------------------------------------------------------
(* Properties of the numeric scorers, checked under SpecScorers.           *)

SpeechRateReturned == pc = "returned" /\ probe.fn = "score_speech_rate"

\* C6: for total_words > 0 and duration > 0, with wpm = total_words * 60 /
\* duration, score_speech_rate returns 10 exactly for 111 <= wpm <= 140, 6
\* exactly for 81 <= wpm <= 110 or 141 <= wpm <= 160, and 2 for every other
\* wpm, the values between the bands included; 150 words in 60 seconds score
\* 6 and 130 words in 60 seconds score 10.
C6_SpeechRateBands ==
    (SpeechRateReturned /\ probe.args[1] > 0 /\ probe.args[2] > 0) =>
        LET w     == probe.args[1]
            d     == probe.args[2]
            n     == w * 60
            score == probe.ret[1]
        IN  /\ score = 10 <=> (111 * d <= n /\ n <= 140 * d)
            /\ score = 6 <=> \/ (81 * d <= n /\ n <= 110 * d)
                             \/ (141 * d <= n /\ n <= 160 * d)
            /\ score \in {2, 6, 10}
            /\ (n < 80 * d \/ n > 161 * d) => score = 2
            /\ (110 * d < n /\ n < 111 * d) => score = 2
            /\ (140 * d < n /\ n < 141 * d) => score = 2
            /\ (160 * d < n /\ n < 161 * d) => score = 2
            /\ (w = 150 /\ d = 60) => score = 6
            /\ (w = 130 /\ d = 60) => score = 10
            /\ probe.ret[2].n * d = n * probe.ret[2].d

\* a wpm strictly between 110 and 111 scores 2
C6_Witness ==
    /\ SpeechRateReturned
    /\ probe.args[2] > 0
    /\ 110 * probe.args[2] < probe.args[1] * 60
    /\ probe.args[1] * 60 < 111 * probe.args[2]
    /\ probe.ret[1] = 2

ClarityReturned == pc = "returned" /\ probe.fn = "score_clarity"

SingleWordFillers ==
    { "um", "uh", "like", "so", "actually", "basically", "right", "well",
      "kinda", "okay", "hmm", "ah" }

\* the places of s where p starts
StartsOf(p, s) ==
    {off \in 0..(Len(s) - Len(p)) : \A k \in 1..Len(p) : Ch(s, off + k) = Ch(p, k)}

\* single-word fillers as exact tokens, multi-word fillers as substrings
FillerOccurrences(t) ==
    LET low    == lower(t)
        tokens == split(low)
    IN  Cardinality({i \in 1..Len(tokens) : tokens[i] \in SingleWordFillers})
        + Cardinality(StartsOf("you know", low))
        + Cardinality(StartsOf("i mean", low))
        + Cardinality(StartsOf("sort of", low))

\* C7: for total_words > 0, with filler_rate = filler_count / total_words * 100
\* (single-word fillers counted as exact tokens, multi-word fillers as
\* substring occurrences), score_clarity returns 15 for a rate in 0-3, 12 for
\* 4-6, 9 for 7-9, 6 for 10-12 and 3 otherwise; 5 fillers over 100 words give
\* the rate 5.0 and the score 12.
C7_ClarityBands ==
    (ClarityReturned /\ probe.args[2] > 0) =>
        LET tw    == probe.args[2]
            fc    == probe.ret[3]
            rate  == probe.ret[2]
            score == probe.ret[1]
            r100  == fc * 100
        IN  /\ fc = FillerOccurrences(probe.args[1])
            /\ rate.n * tw = r100 * rate.d
            /\ score = (IF 0 <= r100 /\ r100 <= 3 * tw THEN 15
                        ELSE IF 4 * tw <= r100 /\ r100 <= 6 * tw THEN 12
                        ELSE IF 7 * tw <= r100 /\ r100 <= 9 * tw THEN 9
                        ELSE IF 10 * tw <= r100 /\ r100 <= 12 * tw THEN 6
                        ELSE 3)
            /\ (fc = 5 /\ tw = 100) => (QEq(rate, Q(5, 1)) /\ score = 12)

\* five filler occurrences over 100 words
C7_Witness ==
    /\ ClarityReturned
    /\ probe.args[1] = "um uh like so well"
    /\ probe.args[2] = 100
    /\ probe.ret[3] = 5
    /\ probe.ret[1] = 12

-----------------------------------------------------------------------------
(* Further properties of score_transcript, checked under Spec.             *)

\* the error estimate with the standalone pronoun counted in the text as
\* written, so in lower case only
ErrorsWithLowercaseI(t) ==
    count(t, " i ") + count(t, "  ") + Len(weird_tokens(split(t)))

\* the same estimate with the pronoun counted after lowercasing the text
ErrorsWithEitherCaseI(t) ==
    count(lower(t), " i ") + count(t, "  ") + Len(weird_tokens(split(t)))

\* C13: for total_words > 0 the error estimate of score_grammar is the number
\* of lowercase standalone "i" plus the number of double spaces plus the
\* number of tokens mixing letters and digits, and nothing else: a transcript
\* with none of the three (the pronoun written "I") has errors_per_100 = 0 and
\* grammar score 10; errors_per_100 is always in [0,100].
C13_GrammarCountsLowercaseIOnly ==
    (Scored /\ local.total_words > 0) =>
        LET est == ErrorsWithLowercaseI(text)
        IN  /\ QEq(local.errors_per_100,
                   QMin(Q(est * 100, local.total_words), Q(100, 1)))
            /\ est = 0 => (local.errors_per_100.n = 0 /\ local.grammar_score = 10)
            /\ QLe(Q(0, 1), local.errors_per_100)
            /\ QLe(local.errors_per_100, Q(100, 1))

\* what the code does: " i " is counted in the lowercased text, so every
\* standalone "I" between spaces counts as an error too
C13_GrammarCountsEitherCaseI ==
    (Scored /\ local.total_words > 0) =>
        LET est == ErrorsWithEitherCaseI(text)
        IN  /\ QEq(local.errors_per_100,
                   QMin(Q(est * 100, local.total_words), Q(100, 1)))
            /\ est = 0 => (local.errors_per_100.n = 0 /\ local.grammar_score = 10)
            /\ QLe(Q(0, 1), local.errors_per_100)
            /\ QLe(local.errors_per_100, Q(100, 1))

\* the cache as the module builds it at import (lines 43-46)
StartUpCache == [k \in SeqToSet(CRITERION_KEYS) |-> DescriptionEmbedding(k)]

C15_SalutationAgreesWithFirstTag ==
    Returned =>
        (result.salutation_score > 0
            <=> (result.tags # <<>> /\ result.tags[1] = "SALUTATION"))

\* the enthusiastic phrases of detect_salutation_level that
\* _sentence_has_salutation does not look for
UntaggedEnthusiasticPhrases ==
    { "i am excited to introduce", "i'm excited to introduce" }

\* C15, amended: whenever the first tag is SALUTATION the salutation score is
\* greater than 0, and a salutation score of 2 or 4 makes the first tag
\* SALUTATION; a score of 5 does so unless the first sentence earns it only by
\* "i am excited to introduce" or "i'm excited to introduce", phrases the
\* sentence tagger does not look for, in which case the first tag is one of
\* the other four.
C15_SalutationAgreesExceptUntaggedPhrases ==
    Returned =>
        LET sal  == result.salutation_score
            tags == result.tags
        IN  /\ tags = <<>> => sal = 0
            /\ tags # <<>> =>
                  LET first == local.sentences[1]
                  IN  /\ tags[1] = "SALUTATION" => sal > 0
                      /\ sal \in {2, 4} => tags[1] = "SALUTATION"
                      /\ (sal > 0 /\ tags[1] # "SALUTATION") =>
                            /\ sal = 5
                            /\ OccursAny(UntaggedEnthusiasticPhrases, first)
                            /\ ~OccursAny({ "excited to introduce myself",
                                            "thrilled to introduce myself",
                                            "excited to be here",
                                            "thrilled to be here",
                                            "good morning", "good afternoon",
                                            "good evening", "hello", "hi", "hey" },
                                          first)

\* a first sentence scoring 5 as a salutation and tagged BASIC
C15_Witness ==
    /\ Returned
    /\ result.salutation_score = 5
    /\ result.tags # <<>>
    /\ result.tags[1] = "BASIC"

-----------------------------------------------------------------------------
(* Properties of the text functions, checked under SpecText.               *)

PreprocessReturned == pc = "returned" /\ probe.fn = "preprocess_text"

\* C11: preprocess_text is idempotent, preprocess_text(preprocess_text(s)) =
\* preprocess_text(s) for every s, the empty and the whitespace-only string
\* included, and its output is lowercase, has no leading or trailing
\* whitespace and no run of two or more whitespace characters.
C11_PreprocessIdempotent ==
    PreprocessReturned =>
        LET out == probe.ret
        IN  /\ preprocess_text(out) = out
            /\ \A i \in 1..Len(out) : Ch(out, i) \notin CharsOf(UpperChars)
            /\ out # "" => (~isspace(Ch(out, 1)) /\ ~isspace(Ch(out, Len(out))))
            /\ \A i \in 1..(Len(out) - 1) : ~(isspace(Ch(out, i)) /\ isspace(Ch(out, i + 1)))
            /\ \A i \in 1..Len(out) : isspace(Ch(out, i)) => Ch(out, i) = " "
            /\ (\A i \in 1..Len(probe.args[1]) : isspace(Ch(probe.args[1], i))) => out = ""

\* an input with leading whitespace, an upper-case letter and a whitespace run
\* holding a newline, normalized to two words with one space between them
C11_Witness ==
    /\ PreprocessReturned
    /\ probe.args[1] = "\tB\n a"
    /\ probe.ret = "b a"

StatsReturned == pc = "returned" /\ probe.fn = "get_basic_stats"

TtrReturned == pc = "returned" /\ probe.fn = "compute_ttr"

\* C12: the stats of every text have distinct_words <= total_words;
\* compute_ttr returns 0.0 whenever total_words is 0, without dividing by
\* zero; and the TTR computed from the stats of any text lies in [0,1].
C12_TtrInUnitInterval ==
    /\ StatsReturned =>
          LET stats == probe.ret[1]
              ttr   == probe.ret[2]
          IN  /\ stats.distinct_words <= stats.total_words
              /\ stats.distinct_words >= 0
              /\ ttr.d > 0
              /\ QLe(Q(0, 1), ttr) /\ QLe(ttr, Q(1, 1))
              /\ stats.total_words = 0 => ttr.n = 0
              /\ stats.total_words > 0 =>
                    ttr.n * stats.total_words = stats.distinct_words * ttr.d
    /\ TtrReturned =>
          /\ probe.ret.d > 0
          /\ probe.args[1] = 0 => probe.ret.n = 0

\* a text with a repeated word: fewer distinct words than words
C12_Witness ==
    /\ StatsReturned
    /\ probe.ret[1].total_words = 2
    /\ probe.ret[1].distinct_words = 1
    /\ QEq(probe.ret[2], Q(1, 2))

-----------------------------------------------------------------------------
(* Monotonicity of score_clarity, checked under SpecScorers.               *)

\* what score_clarity returns for every input with total_words > 0
ClarityOutcomes == {score_clarity(t2, w2) : t2 \in ClarityTexts, w2 \in 1..MaxWords}

\* C16: the clarity score is non-increasing in the filler rate: for any two
\* inputs with total_words > 0, if the first has a filler rate less than or
\* equal to the second's, score_clarity gives the first a score greater than
\* or equal to the second's.
C16_ClarityNonIncreasing ==
    (ClarityReturned /\ probe.args[2] > 0) =>
        \A other \in ClarityOutcomes :
            QLe(probe.ret[2], other[2]) => probe.ret[1] >= other[1]

\* the rate lies in none of the open intervals (3,4), (6,7), (9,10) that the
\* bands of score_clarity leave between them
OutsideBandGaps(rate) ==
    ~ \/ (QLt(Q(3, 1), rate) /\ QLt(rate, Q(4, 1)))
      \/ (QLt(Q(6, 1), rate) /\ QLt(rate, Q(7, 1)))
      \/ (QLt(Q(9, 1), rate) /\ QLt(rate, Q(10, 1)))

\* C16, amended: the clarity score is non-increasing in the filler rate over
\* the rates outside the open intervals (3,4), (6,7) and (9,10); a rate inside
\* one of these intervals scores 3, the lowest score.
C16_ClarityNonIncreasingOutsideGaps ==
    (ClarityReturned /\ probe.args[2] > 0) =>
        /\ ~OutsideBandGaps(probe.ret[2]) => probe.ret[1] = 3
        /\ probe.ret[1] >= 3
        /\ OutsideBandGaps(probe.ret[2]) =>
              \A other \in ClarityOutcomes :
                  (OutsideBandGaps(other[2]) /\ QLe(probe.ret[2], other[2]))
                      => probe.ret[1] >= other[1]

\* a rate of 7 scoring 9, compared with lower and higher rates of other inputs
C16_Witness ==
    /\ ClarityReturned
    /\ probe.args = <<"um um um um um um um", 100>>
    /\ probe.ret[1] = 9
    /\ \E other \in ClarityOutcomes :
          /\ OutsideBandGaps(other[2])
          /\ QLt(probe.ret[2], other[2])
          /\ other[1] < probe.ret[1]

====
